---- MODULE Spec2Model ----
(***************************************************************************)
(* A model of runq's container shrinking tool (shrink_containers.py and    *)
(* images.py).                                                             *)
(*                                                                         *)
(* Part 1 (SpecShrink) models shrink_image: the trace log is read, the     *)
(* exported archive is scanned into the shadow tree and the shebang map,   *)
(* the path set is closed under symlink resolution, and the archive is     *)
(* rewritten.                                                              *)
(*                                                                         *)
(* Part 2 (Spec) models the pipeline: main's loop over the images of       *)
(* images.json, analyze_image with its two instrumented runs, the          *)
(* container-engine commands they issue, and write_images.                 *)
(*                                                                         *)
(* A path is the sequence of its components: "/d/c" is <<"d", "c">>.       *)
(***************************************************************************)
EXTENDS Naturals, Sequences, FiniteSets, TLC

VARIABLES
    source,        \* the exported archive: a sequence of entries (tarfile)
    logs,          \* the NUL-separated entries of the trace log
    path_set,      \* shrink_image's path_set
    shebangs,      \* shrink_image's shebangs: entry name -> interpreter
    symlink_tree,  \* the shadow tree: [links: name -> target, files: names]
    visit_list,    \* list(path_set), taken when the closure loop starts
    todo,          \* the part of visit_list the closure loop has not visited
    destination,   \* the reduced archive: the entries added so far
    pos,           \* index of the next entry of a pass over source
    spc,           \* where shrink_image is
    file,          \* images.json: [valid, items: a sequence of [name, value]]
    images,        \* main's images: the list read_images returned
    loaded,        \* the list as read_images returned it, for reference
    ppc,           \* where the pipeline is
    cur_image,     \* index of the image of main's loop
    phase,         \* the part of main the pipeline is in: "trace", "verify", "record", ...
    sc,            \* index of the sidecar run_container starts, 0 for the parent
    sidecars_up,   \* run_container_instrumented's sidecars: [name, ip] in start order
    run_envs,      \* envs of the deep copy the parent is started with
    stack,         \* containers whose removal is pending at scope exit, last first
    exc,           \* the exception now propagating, or "none"
    result,        \* analyze_image's image_id, old_size, new_size, old_container
    ops,           \* the engine commands issued in this invocation
    containers,    \* the containers that exist in the engine
    invocation,    \* number of invocations started
    completed,     \* names of the images whose analysis completed in this invocation
    completedPrev  \* the same, of the invocation before, when an analysis ended it

shrinkVars == <<source, logs, path_set, shebangs, symlink_tree, visit_list,
                todo, destination, pos, spc>>

pipeVars == <<file, images, loaded, ppc, cur_image, phase, sc, sidecars_up, run_envs,
              stack, exc, result, ops, containers, invocation, completed,
              completedPrev>>

vars == <<shrinkVars, pipeVars>>

----------------------------------------------------------------------------
(* Bounds and universes of the archives and logs that are enumerated. *)

\* At most this many entries in the trace log.
MaxLog == 1

\* A lookup that follows more symbolic links than this fails as a loop
\* (ELOOP).  The kernel allows 40; a chain of the enumerated archives that
\* ends follows at most the three links an archive holds.
MaxHops == 4

\* Names of the entries whose kind and order vary.
ArchiveNames == {<<"a">>, <<"b">>, <<"d", "c">>}

NoLink == [abs |-> FALSE, comps |-> <<>>]
NoLine == [marker |-> FALSE, tokens |-> <<>>]

\* Link targets of symlink entries: /b, /d/c, d and ../b.
LinkNames ==
    { [abs |-> TRUE, comps |-> <<"b">>],
      [abs |-> TRUE, comps |-> <<"d", "c">>],
      [abs |-> FALSE, comps |-> <<"d">>],
      [abs |-> FALSE, comps |-> <<"..", "b">>] }

\* First lines of regular files: no "#!", "#!" alone, "#!sh", "#!/b", "#!/d/c".
FirstLines ==
    { NoLine,
      [marker |-> TRUE, tokens |-> <<>>],
      [marker |-> TRUE, tokens |-> <<[abs |-> FALSE, comps |-> <<"sh">>]>>],
      [marker |-> TRUE, tokens |-> <<[abs |-> TRUE, comps |-> <<"b">>]>>],
      [marker |-> TRUE, tokens |-> <<[abs |-> TRUE, comps |-> <<"d", "c">>]>>] }

EntryOptions ==
    { [kind |-> "dir", linkname |-> NoLink, firstline |-> NoLine] }
    \cup { [kind |-> "reg", linkname |-> NoLink, firstline |-> f] : f \in FirstLines }
    \cup { [kind |-> "sym", linkname |-> l, firstline |-> NoLine] : l \in LinkNames }

\* Sequences of distinct entry names.
NameSeqs ==
    UNION { { s \in [1..n -> ArchiveNames] :
                \A i, j \in 1..n : i # j => s[i] # s[j] } :
            n \in 0..Cardinality(ArchiveNames) }

VaryingArchives ==
    UNION { { [i \in 1..Len(ns) |->
                 [name |-> ns[i], kind |-> o[i].kind,
                  linkname |-> o[i].linkname, firstline |-> o[i].firstline]] :
              o \in [1..Len(ns) -> EntryOptions] } :
            ns \in NameSeqs }

\* /etc/passwd, one of the bootstrap paths, as a plain regular file.
PasswdEntry ==
    [name |-> <<"etc", "passwd">>, kind |-> "reg",
     linkname |-> NoLink, firstline |-> NoLine]

\* The archives: with or without /etc/passwd in front.
Archives == VaryingArchives \cup { <<PasswdEntry>> \o s : s \in VaryingArchives }

\* Entries of a trace log: absolute paths, and one entry without a leading "/".
LogEntries ==
    { [abs |-> TRUE, comps |-> <<"a">>],
      [abs |-> TRUE, comps |-> <<"a", "c">>],
      [abs |-> FALSE, comps |-> <<"a">>] }

Logs == { l \in SUBSET LogEntries : Cardinality(l) <= MaxLog }

----------------------------------------------------------------------------
(* shrink_image *)

BootstrapPaths ==
    { <<".dockerenv">>,
      <<"etc", "passwd">>,
      <<"lib", "ld-musl-x86_64.so.1">>,
      <<"lib64", "ld-linux-x86-64.so.2">>,
      <<"lib", "x86_64-linux-gnu", "ld-2.31.so">>,
      <<"node_modules", "mongo-express", "public", "images", "favicon.ico">> }

\* The seed: the bootstrap paths and the log entries that start with "/".
LoggedPaths(l) == { e.comps : e \in { x \in l : x.abs } }

Seed(l) == BootstrapPaths \cup LoggedPaths(l)

Front(s) == SubSeq(s, 1, Len(s) - 1)

Parent(name) == Front(name)

\* The target a symlink entry is materialised with: an absolute link name
\* is rewritten relative to the directory of the link.
ShadowTarget(entry) ==
    IF entry.linkname.abs
    THEN [i \in 1..Len(Parent(entry.name)) |-> ".."] \o entry.linkname.comps
    ELSE entry.linkname.comps

EmptyTree == [links |-> <<>>, files |-> {}]

\* A directory of the shadow tree: made by mkdir(parents=True) for the
\* parent of a materialised link or placeholder.
IsDir(tree, p) ==
    \E n \in (DOMAIN tree.links) \cup tree.files :
        Len(n) > Len(p) /\ SubSeq(n, 1, Len(p)) = p

\* Path resolution in the shadow tree, from the resolved directory cur.
\* st is "ok" (path is the resolved path), "out" (the lookup left the tree
\* root), "noent" (a component is missing) or "loop" (too many links).
\* lax is resolve(strict=False): a missing component is kept as it is.
RECURSIVE Walk(_, _, _, _, _)
Walk(tree, cur, comps, hops, lax) ==
    IF comps = <<>> THEN [st |-> "ok", path |-> cur]
    ELSE LET c == Head(comps)
             rest == Tail(comps)
             nxt == Append(cur, c)
         IN  IF c = ".."
             THEN IF cur = <<>> THEN [st |-> "out", path |-> <<>>]
                  ELSE Walk(tree, Front(cur), rest, hops, lax)
             ELSE IF nxt \in DOMAIN tree.links
             THEN IF hops = 0 THEN [st |-> "loop", path |-> nxt \o rest]
                  ELSE Walk(tree, cur, tree.links[nxt] \o rest, hops - 1, lax)
             ELSE IF IsDir(tree, nxt) THEN Walk(tree, nxt, rest, hops, lax)
             ELSE IF nxt \in tree.files /\ rest = <<>>
             THEN [st |-> "ok", path |-> nxt]
             ELSE IF lax THEN Walk(tree, nxt, rest, hops, lax)
             ELSE [st |-> "noent", path |-> nxt \o rest]

\* p.exists() / p.resolve() of a member of the path set.
LookupOneHop(tree, p) == Walk(tree, <<>>, p, 1, FALSE)

Lookup(tree, p) == Walk(tree, <<>>, p, MaxHops, FALSE)

\* symlink_tree.joinpath(shebang[1:]).resolve() of an interpreter.
ResolveInterp(tree, interp) == Walk(tree, <<>>, interp, MaxHops, TRUE)

\* Lines 391-405: a symlink entry is materialised as a link, a regular
\* file as an empty placeholder; other entries leave the tree alone.
Materialise(tree, entry) ==
    IF entry.kind = "sym"
    THEN [tree EXCEPT !.links = (entry.name :> ShadowTarget(entry)) @@ @]
    ELSE IF entry.kind = "reg"
    THEN [tree EXCEPT !.files = @ \cup {entry.name}]
    ELSE tree

\* Lines 410-418: the entry declares an absolute interpreter.
DeclaresInterp(entry) ==
    /\ entry.kind = "reg"
    /\ entry.firstline.marker
    /\ entry.firstline.tokens # <<>>
    /\ entry.firstline.tokens[1].abs

\* Line 416: shebang[2:].split()[0] of a line that holds nothing after "#!".
SplitFails(entry) ==
    /\ entry.kind = "reg"
    /\ entry.firstline.marker
    /\ entry.firstline.tokens = <<>>

Interp(entry) == entry.firstline.tokens[1].comps

\* Lines 421-423: the interpreter of an entry whose path is in the set
\* joins the set.
PickUpSkipped(entry, ps) == ps

PickUp(entry, ps) ==
    IF entry.name \in ps THEN ps \cup {Interp(entry)} ELSE ps

\* Lines 437-454 for a path p that exists and resolves inside the tree:
\* the outcomes of the iteration, each the paths it adds, or raised.
VisitInTree(tree, sheb, p) ==
    LET w == Lookup(tree, p)
    IN  IF w.st # "ok" \/ w.path = p
        THEN { [raised |-> FALSE, add |-> {}] }
        ELSE IF w.path \notin DOMAIN sheb
        THEN { [raised |-> FALSE, add |-> {w.path}] }
        ELSE LET r == ResolveInterp(tree, sheb[w.path])
                 added == [raised |-> FALSE, add |-> {r.path, w.path}]
                 fails == [raised |-> TRUE, add |-> {}]
             IN  IF r.st = "out"
                 THEN {fails}      \* relative_to raises ValueError
                 ELSE IF r.st = "loop"
                 THEN {fails, added}   \* resolve() raises before Python 3.13
                 ELSE {added}

\* The outcomes of one iteration of the closure loop for p (lines 430-454).
\* A path that leaves the tree either does not exist on the host or
\* resolves outside the tree, and the ValueError is caught: it is skipped.
VisitOutcomesUncaught(tree, sheb, p) ==
    IF Lookup(tree, p).st = "out"
    THEN { [raised |-> TRUE, add |-> {}] }
    ELSE VisitInTree(tree, sheb, p)

VisitOutcomes(tree, sheb, p) ==
    IF Lookup(tree, p).st = "out"
    THEN { [raised |-> FALSE, add |-> {}] }
    ELSE VisitInTree(tree, sheb, p)

\* shrink_image has not returned.
NoResult == [image_id |-> "", old_size |-> 0, new_size |-> 0, old_container |-> ""]

\* The pipeline's variables while shrink_image is followed on its own.
PipeParked ==
    /\ file = [valid |-> TRUE, items |-> <<>>]
    /\ images = <<>>
    /\ loaded = <<>>
    /\ ppc = "shrink_image"
    /\ cur_image = 0
    /\ phase = "none"
    /\ sc = 0
    /\ sidecars_up = <<>>
    /\ run_envs = <<>>
    /\ stack = <<>>
    /\ exc = "none"
    /\ result = NoResult
    /\ ops = <<>>
    /\ containers = {}
    /\ invocation = 1
    /\ completed = {}
    /\ completedPrev = {}

ShrinkInit ==
    /\ source \in Archives
    /\ logs \in Logs
    /\ path_set = BootstrapPaths
    /\ shebangs = <<>>
    /\ symlink_tree = EmptyTree
    /\ visit_list = {}
    /\ todo = {}
    /\ destination = <<>>
    /\ pos = 1
    /\ spc = "read_log"
    /\ PipeParked

\* Lines 364-370: every log entry that starts with "/" joins the path set.
ReadLogOverwrite ==
    /\ UNCHANGED pipeVars
    /\ spc = "read_log"
    /\ path_set' = LoggedPaths(logs)
    /\ spc' = "scan"
    /\ UNCHANGED <<source, logs, shebangs, symlink_tree, visit_list, todo,
                   destination, pos>>

ReadLog ==
    /\ UNCHANGED pipeVars
    /\ spc = "read_log"
    /\ path_set' = path_set \cup LoggedPaths(logs)
    /\ spc' = "scan"
    /\ UNCHANGED <<source, logs, shebangs, symlink_tree, visit_list, todo,
                   destination, pos>>

\* Lines 388-424: one entry of the archive scan.
ScanEntry ==
    /\ UNCHANGED pipeVars
    /\ spc = "scan"
    /\ pos <= Len(source)
    /\ LET entry == source[pos]
       IN  /\ symlink_tree' = Materialise(symlink_tree, entry)
           /\ IF SplitFails(entry)
              THEN /\ spc' = "raised"      \* IndexError
                   /\ UNCHANGED <<path_set, shebangs, pos>>
              ELSE IF DeclaresInterp(entry)
              THEN /\ shebangs' = (entry.name :> Interp(entry)) @@ shebangs
                   /\ path_set' = PickUp(entry, path_set)
                   /\ pos' = pos + 1
                   /\ UNCHANGED spc
              ELSE /\ pos' = pos + 1
                   /\ UNCHANGED <<path_set, shebangs, spc>>
    /\ UNCHANGED <<source, logs, visit_list, todo, destination>>

\* Line 429: list(path_set) is taken once.  An iteration does nothing for
\* a path that does not exist in the shadow tree, so the loop is followed
\* over the members that may exist.
StartResolve ==
    /\ UNCHANGED pipeVars
    /\ spc = "scan"
    /\ pos > Len(source)
    /\ visit_list' = path_set
    /\ todo' = { p \in path_set : Lookup(symlink_tree, p).st \in {"ok", "out"} }
    /\ spc' = "resolve"
    /\ UNCHANGED <<source, logs, path_set, shebangs, symlink_tree, destination, pos>>

\* Lines 429-454: one iteration of the closure loop, for any member of
\* the list not yet visited (the order of a set is arbitrary).
ResolveVisitBreak ==
    /\ UNCHANGED pipeVars
    /\ spc = "resolve"
    /\ \E p \in todo :
        \E o \in VisitOutcomes(symlink_tree, shebangs, p) :
            /\ todo' = IF o.add = {} THEN {} ELSE todo \ {p}
            /\ path_set' = path_set \cup o.add
            /\ spc' = IF o.raised THEN "raised" ELSE spc
    /\ UNCHANGED <<source, logs, shebangs, symlink_tree, visit_list,
                   destination, pos>>

ResolveVisit ==
    /\ UNCHANGED pipeVars
    /\ spc = "resolve"
    /\ \E p \in todo :
        \E o \in VisitOutcomes(symlink_tree, shebangs, p) :
            /\ todo' = todo \ {p}
            /\ path_set' = path_set \cup o.add
            /\ spc' = IF o.raised THEN "raised" ELSE spc
    /\ UNCHANGED <<source, logs, shebangs, symlink_tree, visit_list,
                   destination, pos>>

\* Lines 456-458: the closure loop is over, the rewrite pass begins.
StartRewrite ==
    /\ UNCHANGED pipeVars
    /\ spc = "resolve"
    /\ todo = {}
    /\ spc' = "rewrite"
    /\ pos' = 1
    /\ destination' = <<>>
    /\ UNCHANGED <<source, logs, path_set, shebangs, symlink_tree, visit_list, todo>>

\* Line 464: the test that keeps an entry.
IncludedInverted(entry, ps) ==
    entry.kind = "dir" \/ entry.kind = "sym" \/ entry.name \notin ps

IncludedNoSym(entry, ps) ==
    entry.kind = "dir" \/ entry.name \in ps

Included(entry, ps) ==
    entry.kind = "dir" \/ entry.kind = "sym" \/ entry.name \in ps

\* Lines 460-471: one entry of the rewrite pass.
RewriteEntry ==
    /\ UNCHANGED pipeVars
    /\ spc = "rewrite"
    /\ pos <= Len(source)
    /\ destination' =
          IF Included(source[pos], path_set)
          THEN Append(destination, source[pos])
          ELSE destination
    /\ pos' = pos + 1
    /\ UNCHANGED <<source, logs, path_set, shebangs, symlink_tree, visit_list,
                   todo, spc>>

\* Lines 472-474: both archives are closed.
FinishRewrite ==
    /\ UNCHANGED pipeVars
    /\ spc = "rewrite"
    /\ pos > Len(source)
    /\ spc' = "written"
    /\ UNCHANGED <<source, logs, path_set, shebangs, symlink_tree, visit_list,
                   todo, destination, pos>>

ShrinkNext ==
    \/ ReadLog
    \/ ScanEntry
    \/ StartResolve
    \/ ResolveVisit
    \/ StartRewrite
    \/ RewriteEntry
    \/ FinishRewrite

SpecShrink == ShrinkInit /\ [][ShrinkNext]_vars

----------------------------------------------------------------------------
(* Claims about shrink_image, checked under SpecShrink. *)

InDestination(entry) == \E j \in DOMAIN destination : destination[j] = entry

IndexIn(seq, entry) == CHOOSE i \in DOMAIN seq : seq[i] = entry

Resolved == spc \in {"rewrite", "written"}

HasEntry(name, kind) ==
    \E i \in DOMAIN source : source[i].name = name /\ source[i].kind = kind

HasLink(name, linkname) ==
    \E i \in DOMAIN source :
        /\ source[i].name = name
        /\ source[i].kind = "sym"
        /\ source[i].linkname = linkname

\* C1: in the rewrite pass a regular-file entry is written to the reduced
\* archive if and only if its path is a member of the resolved path set.
C1_RegularKeptIffInPathSet ==
    Resolved =>
        \A i \in 1..(pos - 1) :
            source[i].kind = "reg" =>
                (InDestination(source[i]) <=> source[i].name \in path_set)

C1_Witness ==
    /\ spc = "written"
    /\ \E i \in DOMAIN source : source[i].kind = "reg" /\ InDestination(source[i])
    /\ \E i \in DOMAIN source : source[i].kind = "reg" /\ ~InDestination(source[i])

\* C2: every directory entry and every symlink entry of the input is in
\* the reduced archive, unchanged, whether or not its path is in the path
\* set, and the retained entries keep their relative order.
C2_DirsAndLinksKeptInOrder ==
    Resolved =>
        /\ \A i \in 1..(pos - 1) :
              source[i].kind \in {"dir", "sym"} => InDestination(source[i])
        /\ \A j \in DOMAIN destination :
              \E i \in 1..(pos - 1) : source[i] = destination[j]
        /\ \A j, k \in DOMAIN destination :
              j < k => IndexIn(source, destination[j]) < IndexIn(source, destination[k])

C2_Witness ==
    /\ spc = "written"
    /\ Len(destination) >= 2
    /\ Len(destination) < Len(source)
    /\ \E i \in DOMAIN source :
          source[i].kind = "sym" /\ source[i].name \notin path_set
    /\ \E i \in DOMAIN source :
          source[i].kind = "dir" /\ source[i].name \notin path_set

\* C3: the path set only grows, and from the end of the log read on it
\* contains the seed: the bootstrap paths and every logged entry that
\* starts with "/".
C3_PathSetGrows ==
    /\ [](spc # "read_log" => Seed(logs) \subseteq path_set)
    /\ [][path_set \subseteq path_set']_vars

C3_Witness ==
    /\ spc = "written"
    /\ LoggedPaths(logs) # {}
    /\ path_set # Seed(logs)

\* The archive holds the chain /a -> /b -> /d/c, /d/c a regular file, and
\* the log holds /a alone.
ChainCase ==
    /\ logs = { [abs |-> TRUE, comps |-> <<"a">>] }
    /\ HasLink(<<"a">>, [abs |-> TRUE, comps |-> <<"b">>])
    /\ HasLink(<<"b">>, [abs |-> TRUE, comps |-> <<"d", "c">>])
    /\ HasEntry(<<"d", "c">>, "reg")

\* C4 as stated: for the chain with only its head logged, the resolved
\* path set contains the intermediate link and the final target.
C4_ChainAddsLinkAndTarget ==
    (ChainCase /\ Resolved) => {<<"b">>, <<"d", "c">>} \subseteq path_set

\* C4, amended: for the chain with only its head logged, the resolved path
\* set contains the final target; the intermediate link need not be in the
\* set, and all three entries are in the reduced archive.
C4_ChainAddsTarget ==
    (ChainCase /\ Resolved) =>
        /\ <<"d", "c">> \in path_set
        /\ spc = "written" =>
              \A i \in DOMAIN source :
                  source[i].name \in {<<"a">>, <<"b">>, <<"d", "c">>}
                      => InDestination(source[i])

C4_Witness ==
    /\ ChainCase
    /\ spc = "written"
    /\ <<"b">> \notin path_set

\* C5: once resolution is over, the path set contains the interpreter of
\* every regular file of the seed that declares an absolute one, and, for
\* a seed path that resolves through a symlink to such a script, the path
\* its interpreter resolves to.
C5_Shebang ==
    Resolved =>
        /\ \A i \in DOMAIN source :
              (DeclaresInterp(source[i]) /\ source[i].name \in Seed(logs))
                  => Interp(source[i]) \in path_set
        /\ \A p \in Seed(logs) : \A i \in DOMAIN source :
              LET w == Lookup(symlink_tree, p)
                  r == ResolveInterp(symlink_tree, Interp(source[i]))
              IN  (/\ DeclaresInterp(source[i])
                   /\ w.st = "ok"
                   /\ w.path # p
                   /\ w.path = source[i].name
                   /\ r.st = "ok")
                      => r.path \in path_set

C5_Witness ==
    /\ spc = "written"
    /\ \E i \in DOMAIN source :
          /\ DeclaresInterp(source[i])
          /\ source[i].name \in LoggedPaths(logs)
          /\ Interp(source[i]) \notin Seed(logs)
          /\ Interp(source[i]) \in path_set

\* C6: the iteration for a path whose lookup leaves the shadow tree adds
\* nothing to the path set and does not raise; the loop goes on.
C6_OutOfTreeSkipped ==
    [][(/\ spc = "resolve"
        /\ \E p \in todo :
              /\ todo' = todo \ {p}
              /\ Lookup(symlink_tree, p).st = "out")
          => (path_set' = path_set /\ spc' = "resolve")]_vars

C6_Witness ==
    /\ spc = "resolve"
    /\ todo # {}
    /\ \E p \in visit_list \ todo : Lookup(symlink_tree, p).st = "out"

\* What the closure loop adds for p, whenever p is visited.
AddedFor(p) ==
    LET w == Lookup(symlink_tree, p)
    IN  IF w.st = "ok" /\ w.path # p
        THEN {w.path} \cup
             (IF w.path \in DOMAIN shebangs
              THEN {ResolveInterp(symlink_tree, shebangs[w.path]).path}
              ELSE {})
        ELSE {}

\* C7: the resolved path set is a function of the archive and the log: it
\* is the list taken at the start of the loop and what each member adds,
\* in whatever order the members were visited.
C7_OrderIndependent ==
    Resolved => path_set = visit_list \cup UNION { AddedFor(p) : p \in visit_list }

C7_Witness ==
    /\ spc = "written"
    /\ \E p, q \in visit_list :
          /\ p # q
          /\ Lookup(symlink_tree, p).st = "ok"
          /\ Lookup(symlink_tree, q).st = "ok"
          /\ AddedFor(p) = {}
          /\ AddedFor(q) # {}
          /\ ~(AddedFor(q) \subseteq visit_list)

----------------------------------------------------------------------------
(* Part 2: the pipeline.  Bounds and the files that are enumerated. *)

\* At most this many invocations of the pipeline, one after the other.
MaxInvocations == 2

\* wc -c reports between 1 and this many units; a tar archive is never
\* empty (tarfile pads it to a full record).
MaxSize == 2

None == "None"
NoSize == <<>>

ImageNames == {"app1", "app2"}

\* The order json.dump(sort_keys=True) gives the names.
Rank == ("app1" :> 1) @@ ("app2" :> 2) @@ ("db" :> 3) @@ ("mq" :> 4)

DigestOf ==
    ("app1" :> "sha256:app1") @@ ("app2" :> "sha256:app2")
    @@ ("db" :> "sha256:db") @@ ("mq" :> "sha256:mq")

\* What docker import prints for the reduced archive of an image.
ImportedId == ("app1" :> "import:app1") @@ ("app2" :> "import:app2")

\* An environment string is a sequence of tokens: literal text, the
\* placeholder ${name}, or the IP address of the container of sidecar name.
Lit(text) == [kind |-> "lit", text |-> text]
Var(name) == [kind |-> "var", text |-> name]
Addr(name) == [kind |-> "ip", text |-> name]

PlainValue(n) ==
    [repo_digest |-> DigestOf[n], test_ports |-> <<>>, envs |-> <<>>,
     mounts |-> <<>>, sidecars |-> <<>>]

Sizes == [old_size |-> MaxSize, new_size |-> 1]

\* The records images.json may hold for an image before an invocation.
ImageValues(n) ==
    LET plain == PlainValue(n)
        db == [name |-> "db", value |-> PlainValue("db")]
        mq == [name |-> "mq", value |-> PlainValue("mq")]
        bad == [name |-> "db",
                value |-> [PlainValue("db") EXCEPT !.repo_digest = None]]
        web == [plain EXCEPT
                  !.test_ports = <<[num |-> 80, wget |-> TRUE]>>,
                  !.mounts = <<[from_path |-> "data", to_path |-> "/data"]>>]
               @@ [docker_commands |-> <<"build">>]
        one == [plain EXCEPT
                  !.test_ports = <<[num |-> 80]>>,
                  !.envs = <<<<Lit("DB="), Var("db")>>>>,
                  !.sidecars = <<db>>]
        two == [plain EXCEPT
                  !.envs = <<<<Var("db"), Lit(":"), Var("mq")>>>>,
                  !.sidecars = <<mq, db>>]
    IN  { plain, web, one, two,
          plain @@ Sizes,
          one @@ Sizes @@ [docker_commands |-> <<"build">>],
          plain @@ [skip |-> TRUE],
          [plain EXCEPT !.repo_digest = None],
          [plain EXCEPT !.sidecars = <<mq, bad>>] }

\* The files: up to two images, in any order.
Files ==
    { <<>> }
    \cup UNION { { <<[name |-> n, value |-> v]>> : v \in ImageValues(n) } :
                  n \in ImageNames }
    \cup UNION { { <<[name |-> n, value |-> v], [name |-> m, value |-> w]>> :
                      v \in ImageValues(n), w \in ImageValues(m) } :
                  <<n, m>> \in { q \in ImageNames \X ImageNames : q[1] # q[2] } }

----------------------------------------------------------------------------
(* images.py *)

Get(value, key, default) == IF key \in DOMAIN value THEN value[key] ELSE default

Opt(value, key) == IF key \in DOMAIN value THEN <<value[key]>> ELSE NoSize

\* Port(**p): wget defaults to False.
PortFromJson(p) == [num |-> p.num, wget |-> Get(p, "wget", FALSE)]

\* Image.from_json (lines 36-55).
RECURSIVE FromJson(_, _)
FromJson(name, value) ==
    LET scs == Get(value, "sidecars", <<>>)
        ports == Get(value, "test_ports", <<>>)
    IN  [name |-> name,
         repo_digest |-> Get(value, "repo_digest", None),
         docker_commands |-> Get(value, "docker_commands", <<>>),
         old_size |-> Opt(value, "old_size"),
         new_size |-> Opt(value, "new_size"),
         envs |-> Get(value, "envs", <<>>),
         mounts |-> Get(value, "mounts", <<>>),
         test_ports |-> [i \in DOMAIN ports |-> PortFromJson(ports[i])],
         skip |-> Get(value, "skip", FALSE),
         sidecars |-> [i \in DOMAIN scs |-> FromJson(scs[i].name, scs[i].value)]]

\* Lines 59-64: wget is written only when it is set.
PortAsJson(port) ==
    IF port.wget THEN [num |-> port.num, wget |-> TRUE] ELSE [num |-> port.num]

\* as_json without lines 79-80.
RECURSIVE AsJsonNoNewSize(_)
AsJsonNoNewSize(image) ==
    [repo_digest |-> image.repo_digest,
     test_ports |-> [i \in DOMAIN image.test_ports |-> PortAsJson(image.test_ports[i])],
     envs |-> image.envs,
     mounts |-> image.mounts,
     sidecars |-> [i \in DOMAIN image.sidecars |->
                     [name |-> image.sidecars[i].name,
                      value |-> AsJsonNoNewSize(image.sidecars[i])]]]
    @@ (IF image.skip THEN [skip |-> TRUE] ELSE <<>>)
    @@ (IF image.old_size # NoSize THEN [old_size |-> image.old_size[1]] ELSE <<>>)

\* Image.as_json (lines 57-81).
RECURSIVE AsJson(_)
AsJson(image) ==
    [repo_digest |-> image.repo_digest,
     test_ports |-> [i \in DOMAIN image.test_ports |-> PortAsJson(image.test_ports[i])],
     envs |-> image.envs,
     mounts |-> image.mounts,
     sidecars |-> [i \in DOMAIN image.sidecars |->
                     [name |-> image.sidecars[i].name,
                      value |-> AsJson(image.sidecars[i])]]]
    @@ (IF image.skip THEN [skip |-> TRUE] ELSE <<>>)
    @@ (IF image.old_size # NoSize THEN [old_size |-> image.old_size[1]] ELSE <<>>)
    @@ (IF image.new_size # NoSize THEN [new_size |-> image.new_size[1]] ELSE <<>>)

\* read_images (lines 84-89): the images in the order of the file.
ReadImages(f) == [i \in DOMAIN f.items |-> FromJson(f.items[i].name, f.items[i].value)]

\* json.dump(sort_keys=True): the items of a mapping in the order of their
\* names, those of the nested sidecars mappings too.
SortItems(items) ==
    [k \in DOMAIN items |->
        CHOOSE it \in { items[i] : i \in DOMAIN items } :
            Cardinality({ i \in DOMAIN items : Rank[items[i].name] < Rank[it.name] }) = k - 1]

RECURSIVE SortKeys(_)
SortKeys(value) ==
    [value EXCEPT !.sidecars =
        SortItems([i \in DOMAIN value.sidecars |->
                     [name |-> value.sidecars[i].name,
                      value |-> SortKeys(value.sidecars[i].value)]])]

\* write_images (lines 92-99): what the file holds once json.dump is through.
Dumped(imgs) ==
    [valid |-> TRUE,
     items |-> SortItems([i \in DOMAIN imgs |->
                            [name |-> imgs[i].name, value |-> SortKeys(AsJson(imgs[i]))]])]

\* open(path, "w") has emptied the file and json.dump has not written it.
Truncated == [valid |-> FALSE, items |-> <<>>]

----------------------------------------------------------------------------
(* shrink_containers.py: the pipeline *)

\* Python's truth value of an Optional[int].
Truthy(size) == size # NoSize /\ size[1] # 0

\* The test of line 527 without its sizes.
IsProcessedSkipOnly(image) == image.skip

\* main, line 527.
IsProcessed(image) == (Truthy(image.old_size) /\ Truthy(image.new_size)) \/ image.skip

\* env.replace("${" + n + "}", ip)
Replace(env, n) ==
    [j \in DOMAIN env |-> IF env[j] = Var(n) THEN Addr(n) ELSE env[j]]

\* Lines 287-291 for one env: every pass of the inner loop assigns
\* image.envs[i] from env, the string the outer loop read.
RECURSIVE InnerLoop(_, _, _, _)
InnerLoop(env, slot, scs, k) ==
    IF k > Len(scs) THEN slot
    ELSE InnerLoop(env, Replace(env, scs[k].name), scs, k + 1)

SubstituteEnvs(envs, scs) ==
    [i \in DOMAIN envs |-> InnerLoop(envs[i], envs[i], scs, 1)]

\* An engine command: the image of main's loop it is issued for, the
\* container it names, the reference it instantiates.
Op(op, owner, role) ==
    [op |-> op, owner |-> owner, role |-> role, ref |-> "", envs |-> <<>>,
     runtime |-> "", config |-> ""]

Container(owner, role) == [owner |-> owner, role |-> role]

Cur == images[cur_image]

\* The image run_container is called with, the name it gives the
\* container (line 255), and the arguments of the call.
Target == IF sc = 0 THEN Cur ELSE Cur.sidecars[sc]

Role == IF sc = 0 THEN "parent" ELSE Cur.sidecars[sc].name

\* The container instantiated from the name of the image.
ReferenceByName == Target.name

\* run_container, line 261: repo_digest or image.repo_digest.
Reference ==
    IF sc # 0 THEN Target.repo_digest
    ELSE IF phase = "verify" THEN result.image_id ELSE Cur.repo_digest

RunOp ==
    [op |-> "run", owner |-> Cur.name, role |-> Role, ref |-> Reference,
     envs |-> IF sc = 0 THEN run_envs ELSE Target.envs,
     runtime |-> IF sc = 0 THEN "runq" ELSE "runc",
     config |-> IF sc = 0 /\ phase = "verify" THEN result.old_container ELSE ""]

ShrinkParked ==
    /\ source = <<>>
    /\ logs = {}
    /\ path_set = {}
    /\ shebangs = <<>>
    /\ symlink_tree = EmptyTree
    /\ visit_list = {}
    /\ todo = {}
    /\ destination = <<>>
    /\ pos = 1
    /\ spc = "idle"

Init ==
    /\ ShrinkParked
    /\ file \in { [valid |-> TRUE, items |-> f] : f \in Files }
    /\ images = <<>>
    /\ loaded = <<>>
    /\ ppc = "load"
    /\ cur_image = 0
    /\ phase = "load"
    /\ sc = 0
    /\ sidecars_up = <<>>
    /\ run_envs = <<>>
    /\ stack = <<>>
    /\ exc = "none"
    /\ result = NoResult
    /\ ops = <<>>
    /\ containers = {}
    /\ invocation = 1
    /\ completed = {}
    /\ completedPrev = {}

\* What an action of main leaves alone unless it says otherwise.
runVars == <<sc, sidecars_up, run_envs, stack, result>>
bookVars == <<invocation, completed, completedPrev>>

\* An exception leaves the step it is raised in: the scopes that are open
\* are left next.
Raise(e) ==
    /\ exc' = e
    /\ ppc' = "unwind"

\* main, line 522: read_images.
Load ==
    /\ UNCHANGED shrinkVars
    /\ ppc = "load"
    /\ IF file.valid
       THEN /\ images' = ReadImages(file)
            /\ loaded' = ReadImages(file)
            /\ ppc' = "startup"
            /\ exc' = exc
       ELSE /\ UNCHANGED <<images, loaded>>
            /\ ppc' = "aborted"
            /\ exc' = "JSONDecodeError"
    /\ UNCHANGED <<file, cur_image, phase, ops, containers>>
    /\ UNCHANGED <<runVars, bookVars>>

\* main, lines 523-525: build_runq, modprobe, create_bridge, run_dockerd.
\* When dockerd ends before its socket answers, sys.exit(1) at line 195 is
\* raised inside the with of line 184, whose exit waits for both children
\* (Popen.__exit__); terminate() is called only by the finally of lines
\* 202-209, which the loop of lines 186-196 has not reached.  dockerd has
\* ended; containerd either has ended too, and the process exits with 1,
\* or is still running, and the wait does not return.
Startup ==
    /\ UNCHANGED shrinkVars
    /\ ppc = "startup"
    /\ \E dockerd_up \in BOOLEAN, containerd_up \in BOOLEAN :
         IF dockerd_up /\ containerd_up
         THEN /\ ppc' = "loop"
              /\ cur_image' = 1
              /\ phase' = "loop"
              /\ exc' = exc
         ELSE /\ ppc' = IF containerd_up THEN "hung" ELSE "aborted"
              /\ cur_image' = cur_image
              /\ phase' = "startup"
              /\ exc' = "SystemExit"
    /\ UNCHANGED <<file, images, loaded, ops, containers>>
    /\ UNCHANGED <<runVars, bookVars>>

\* main, lines 526-529.
LoopSkip ==
    /\ UNCHANGED shrinkVars
    /\ ppc = "loop"
    /\ cur_image <= Len(images)
    /\ IsProcessed(Cur)
    /\ cur_image' = cur_image + 1
    /\ UNCHANGED <<file, images, loaded, ppc, phase, exc, ops, containers>>
    /\ UNCHANGED <<runVars, bookVars>>

\* main, line 526 when the list is through: the scopes of line 525 are left.
LoopEnd ==
    /\ UNCHANGED shrinkVars
    /\ ppc = "loop"
    /\ cur_image > Len(images)
    /\ ppc' = "exited"
    /\ phase' = "exit"
    /\ UNCHANGED <<file, images, loaded, cur_image, exc, ops, containers>>
    /\ UNCHANGED <<runVars, bookVars>>

\* run_container_instrumented without the loop of lines 281-284.
EnterInstrumentedNoSidecars ==
    /\ sc' = 0
    /\ ppc' = "subst"
    /\ sidecars_up' = <<>>
    /\ run_envs' = <<>>
    /\ stack' = <<>>

\* The head of run_container_instrumented (lines 279-281).
EnterInstrumented ==
    /\ sc' = IF Len(Cur.sidecars) > 0 THEN 1 ELSE 0
    /\ ppc' = IF Len(Cur.sidecars) > 0 THEN "rc_enter" ELSE "subst"
    /\ sidecars_up' = <<>>
    /\ run_envs' = <<>>
    /\ stack' = <<>>

\* main, line 530, and analyze_image, lines 484-491.
AnalyzeImage ==
    /\ UNCHANGED shrinkVars
    /\ ppc = "loop"
    /\ cur_image <= Len(images)
    /\ ~IsProcessed(Cur)
    /\ phase' = "trace"
    /\ result' = NoResult
    /\ IF Cur.repo_digest = None
       THEN /\ exc' = "AssertionError"
            /\ ppc' = "unwind"
            /\ UNCHANGED <<sc, sidecars_up, run_envs, stack>>
       ELSE /\ exc' = exc
            /\ EnterInstrumented
    /\ UNCHANGED <<file, images, loaded, cur_image, ops, containers>>
    /\ UNCHANGED bookVars

\* run_container, lines 253-256: the assertion, then docker rm -f of the
\* name, whose result is not looked at.
RunContainerEnter ==
    /\ UNCHANGED shrinkVars
    /\ ppc = "rc_enter"
    /\ IF Target.repo_digest = None
       THEN /\ Raise("AssertionError")
            /\ UNCHANGED <<ops, containers>>
       ELSE /\ ppc' = "rc_run"
            /\ exc' = exc
            /\ ops' = Append(ops, Op("rm", Cur.name, Role))
            /\ containers' = containers \ {Container(Cur.name, Role)}
    /\ UNCHANGED <<file, images, loaded, cur_image, phase>>
    /\ UNCHANGED <<runVars, bookVars>>

\* run_container, lines 257-266: docker run.  A run that fails may leave
\* the container it created behind.
DockerRun ==
    /\ UNCHANGED shrinkVars
    /\ ppc = "rc_run"
    /\ ops' = Append(ops, RunOp)
    /\ \E ok \in BOOLEAN, created \in BOOLEAN :
         /\ ok => created
         /\ containers' = IF created THEN containers \cup {Container(Cur.name, Role)}
                          ELSE containers
         /\ IF ok THEN ppc' = "rc_inspect" /\ exc' = exc
            ELSE Raise("CalledProcessError")
    /\ UNCHANGED <<file, images, loaded, cur_image, phase>>
    /\ UNCHANGED <<runVars, bookVars>>

\* run_container, lines 267-271, up to the yield; the loop of lines 281-284
\* and the with of line 299 take what is yielded.
DockerInspect ==
    /\ UNCHANGED shrinkVars
    /\ ppc = "rc_inspect"
    /\ \E ok \in BOOLEAN :
         IF ok
         THEN /\ ops' = Append(ops, Op("inspect", Cur.name, Role))
              /\ stack' = <<Container(Cur.name, Role)>> \o stack
              /\ exc' = exc
              /\ containers' = containers
              /\ IF sc = 0
                 THEN /\ ppc' = "test"
                      /\ UNCHANGED <<sc, sidecars_up>>
                 ELSE /\ sidecars_up' = Append(sidecars_up, [name |-> Role, ip |-> Addr(Role)])
                      /\ sc' = sc + 1
                      /\ ppc' = IF sc < Len(Cur.sidecars) THEN "rc_enter" ELSE "subst"
         ELSE /\ ops' = ops \o <<Op("inspect", Cur.name, Role), Op("rm", Cur.name, Role)>>
              /\ containers' = containers \ {Container(Cur.name, Role)}
              /\ Raise("CalledProcessError")
              /\ UNCHANGED <<sc, sidecars_up, stack>>
    /\ UNCHANGED <<file, images, loaded, cur_image, phase, run_envs, result>>
    /\ UNCHANGED bookVars

\* The substitution without the copy of line 286: the replacement is
\* written into the Image of the caller.
SubstituteInPlace ==
    /\ UNCHANGED shrinkVars
    /\ ppc = "subst"
    /\ run_envs' = SubstituteEnvs(Cur.envs, sidecars_up)
    /\ images' = [images EXCEPT ![cur_image].envs = SubstituteEnvs(Cur.envs, sidecars_up)]
    /\ ops' = ops \o <<Op("subst", Cur.name, "parent")>>
                  \o (IF Len(Cur.sidecars) > 0
                      THEN <<Op("sleep", Cur.name, "parent")>> ELSE <<>>)
    /\ sc' = 0
    /\ ppc' = "rc_enter"
    /\ UNCHANGED <<file, loaded, cur_image, phase, exc, containers>>
    /\ UNCHANGED <<sidecars_up, stack, result>>
    /\ UNCHANGED bookVars

\* run_container_instrumented, lines 286-296: the copy, the substitution,
\* the settle delay.
Substitute ==
    /\ UNCHANGED shrinkVars
    /\ ppc = "subst"
    /\ run_envs' = SubstituteEnvs(Cur.envs, sidecars_up)
    /\ ops' = ops \o <<Op("subst", Cur.name, "parent")>>
                  \o (IF Len(Cur.sidecars) > 0
                      THEN <<Op("sleep", Cur.name, "parent")>> ELSE <<>>)
    /\ sc' = 0
    /\ ppc' = "rc_enter"
    /\ UNCHANGED <<file, images, loaded, cur_image, phase, exc, containers>>
    /\ UNCHANGED <<sidecars_up, stack, result>>
    /\ UNCHANGED bookVars

\* test_image, lines 337-341, with every port answering, and the sleep of
\* lines 493-494.
TestImage ==
    /\ UNCHANGED shrinkVars
    /\ ppc = "test"
    /\ ops' = ops \o <<Op("test", Cur.name, "parent")>>
                  \o (IF phase = "trace"
                      THEN <<Op("settle", Cur.name, "parent")>> ELSE <<>>)
    /\ ppc' = "logs"
    /\ UNCHANGED <<file, images, loaded, cur_image, phase, exc, containers>>
    /\ UNCHANGED <<runVars, bookVars>>

\* wait_tcp_port, lines 305-314, when a port never answers.
TestHang ==
    /\ UNCHANGED shrinkVars
    /\ ppc = "test"
    /\ Cur.test_ports # <<>>
    /\ ppc' = "hung"
    /\ UNCHANGED <<file, images, loaded, cur_image, phase, exc, ops, containers>>
    /\ UNCHANGED <<runVars, bookVars>>

\* analyze_image, lines 495 and 503: docker logs.
DockerLogs ==
    /\ UNCHANGED shrinkVars
    /\ ppc = "logs"
    /\ ops' = Append(ops, Op("logs", Cur.name, "parent"))
    /\ \E ok \in BOOLEAN :
         IF ok
         THEN /\ ppc' = IF phase = "trace" THEN "create" ELSE "unwind"
              /\ exc' = exc
         ELSE Raise("CalledProcessError")
    /\ UNCHANGED <<file, images, loaded, cur_image, phase, containers>>
    /\ UNCHANGED <<runVars, bookVars>>

\* What the rewrite of the archive may raise (Part 1: a bare "#!", an
\* interpreter outside the shadow tree, a loop of links).
RewriteErrors == {"IndexError", "ValueError", "RuntimeError"}

\* shrink_image, lines 345-377: the log is read, the throwaway container
\* is created.
DockerCreate ==
    /\ UNCHANGED shrinkVars
    /\ ppc = "create"
    /\ ops' = Append(ops, [Op("create", Cur.name, "export") EXCEPT !.ref = Cur.repo_digest])
    /\ \E ok \in BOOLEAN :
         IF ok
         THEN /\ containers' = containers \cup {Container(Cur.name, "export")}
              /\ ppc' = "export"
              /\ exc' = exc
         ELSE /\ containers' = containers
              /\ Raise("CalledProcessError")
    /\ UNCHANGED <<file, images, loaded, cur_image, phase>>
    /\ UNCHANGED <<runVars, bookVars>>

\* docker export of the container of the traced run.
DockerExportTraced ==
    /\ UNCHANGED shrinkVars
    /\ ppc = "export"
    /\ ops' = Append(ops, Op("export", Cur.name, "parent"))
    /\ ppc' = "export_rm"
    /\ \E ok \in BOOLEAN :
         exc' = IF ok THEN exc ELSE "CalledProcessError"
    /\ UNCHANGED <<file, images, loaded, cur_image, phase, containers>>
    /\ UNCHANGED <<runVars, bookVars>>

\* shrink_image, lines 379-380: docker export; the finally clause is next
\* whatever the outcome.
DockerExport ==
    /\ UNCHANGED shrinkVars
    /\ ppc = "export"
    /\ ops' = Append(ops, Op("export", Cur.name, "export"))
    /\ ppc' = "export_rm"
    /\ \E ok \in BOOLEAN :
         exc' = IF ok THEN exc ELSE "CalledProcessError"
    /\ UNCHANGED <<file, images, loaded, cur_image, phase, containers>>
    /\ UNCHANGED <<runVars, bookVars>>

\* shrink_image, lines 381-382: docker rm of the throwaway container, run
\* with check=True.
DockerRmExport ==
    /\ UNCHANGED shrinkVars
    /\ ppc = "export_rm"
    /\ ops' = Append(ops, Op("rm", Cur.name, "export"))
    /\ \E ok \in BOOLEAN :
         IF ok
         THEN /\ containers' = containers \ {Container(Cur.name, "export")}
              /\ ppc' = IF exc = "none" THEN "rewrite" ELSE "unwind"
              /\ exc' = exc
         ELSE /\ containers' = containers
              /\ Raise("CalledProcessError")
    /\ UNCHANGED <<file, images, loaded, cur_image, phase>>
    /\ UNCHANGED <<runVars, bookVars>>

\* shrink_image, lines 384-474: the reduced archive is written, or one of
\* the passes raises.
Rewrite ==
    /\ UNCHANGED shrinkVars
    /\ ppc = "rewrite"
    /\ \/ /\ ppc' = "import"
          /\ exc' = exc
          /\ ops' = Append(ops, Op("rewrite", Cur.name, "reduced"))
       \/ /\ \E e \in RewriteErrors : Raise(e)
          /\ ops' = ops
    /\ UNCHANGED <<file, images, loaded, cur_image, phase, containers>>
    /\ UNCHANGED <<runVars, bookVars>>

\* shrink_image, lines 475-477: docker import.
DockerImport ==
    /\ UNCHANGED shrinkVars
    /\ ppc = "import"
    /\ ops' = Append(ops, Op("import", Cur.name, "reduced"))
    /\ \E ok \in BOOLEAN :
         IF ok
         THEN /\ result' = [result EXCEPT !.image_id = ImportedId[Cur.name]]
              /\ ppc' = "sizes"
              /\ exc' = exc
         ELSE /\ result' = result
              /\ Raise("CalledProcessError")
    /\ UNCHANGED <<file, images, loaded, cur_image, phase, containers>>
    /\ UNCHANGED <<sc, sidecars_up, run_envs, stack>>
    /\ UNCHANGED bookVars

\* shrink_image, lines 478-480, get_bytes, and analyze_image, lines
\* 496-497: the reduced archive is not larger than the exported one.
GetBytes ==
    /\ UNCHANGED shrinkVars
    /\ ppc = "sizes"
    /\ \/ \E o \in 1..MaxSize, n \in 1..MaxSize :
            /\ n <= o
            /\ result' = [result EXCEPT !.old_size = o, !.new_size = n,
                                        !.old_container = "traced"]
            /\ exc' = exc
            /\ ppc' = "unwind"
       \/ /\ result' = result
          /\ Raise("CalledProcessError")
    /\ UNCHANGED <<file, images, loaded, cur_image, phase, ops, containers>>
    /\ UNCHANGED <<sc, sidecars_up, run_envs, stack>>
    /\ UNCHANGED bookVars

\* run_container, lines 270-271, as a scope is left: the with of line 299
\* first, then the ExitStack of line 279, last entered first.
Unwind ==
    /\ UNCHANGED shrinkVars
    /\ ppc = "unwind"
    /\ stack # <<>>
    /\ ops' = Append(ops, Op("rm", Head(stack).owner, Head(stack).role))
    /\ containers' = containers \ {Head(stack)}
    /\ stack' = Tail(stack)
    /\ UNCHANGED <<file, images, loaded, ppc, cur_image, phase, exc>>
    /\ UNCHANGED <<sc, sidecars_up, run_envs, result>>
    /\ UNCHANGED bookVars

\* analyze_image without lines 499-503: the sizes are assigned when the
\* traced run is over.
UnwindDoneNoVerify ==
    /\ UNCHANGED shrinkVars
    /\ ppc = "unwind"
    /\ stack = <<>>
    /\ IF exc # "none"
       THEN /\ ppc' = "aborted"
            /\ phase' = phase
       ELSE /\ phase' = "record"
            /\ ppc' = "set_old"
    /\ UNCHANGED <<file, images, loaded, cur_image, exc, ops, containers>>
    /\ UNCHANGED <<runVars, bookVars>>

\* analyze_image once the scopes of a run are left: the exception goes on
\* to end the process, or the next statement runs (lines 499, 504).
UnwindDone ==
    /\ UNCHANGED shrinkVars
    /\ ppc = "unwind"
    /\ stack = <<>>
    /\ IF exc # "none"
       THEN /\ ppc' = "aborted"
            /\ UNCHANGED <<phase, sc, sidecars_up, run_envs, stack>>
       ELSE IF phase = "trace"
       THEN /\ phase' = "verify"
            /\ EnterInstrumented
       ELSE /\ phase' = "record"
            /\ ppc' = "set_old"
            /\ UNCHANGED <<sc, sidecars_up, run_envs, stack>>
    /\ UNCHANGED <<file, images, loaded, cur_image, exc, ops, containers, result>>
    /\ UNCHANGED bookVars

\* analyze_image, line 504.
SetOldSize ==
    /\ UNCHANGED shrinkVars
    /\ ppc = "set_old"
    /\ images' = [images EXCEPT ![cur_image].old_size = <<result.old_size>>]
    /\ ppc' = "set_new"
    /\ UNCHANGED <<file, loaded, cur_image, phase, exc, ops, containers>>
    /\ UNCHANGED <<runVars, bookVars>>

\* analyze_image, line 505, and its return.
SetNewSize ==
    /\ UNCHANGED shrinkVars
    /\ ppc = "set_new"
    /\ images' = [images EXCEPT ![cur_image].new_size = <<result.new_size>>]
    /\ completed' = completed \cup {Cur.name}
    /\ phase' = "persist"
    /\ ppc' = "write_open"
    /\ UNCHANGED <<file, loaded, cur_image, exc, ops, containers>>
    /\ UNCHANGED <<runVars, invocation, completedPrev>>

\* main without line 531: the loop goes on and nothing is written.
WriteImagesOmitted ==
    /\ UNCHANGED shrinkVars
    /\ ppc = "write_open"
    /\ ppc' = "loop"
    /\ phase' = "loop"
    /\ cur_image' = cur_image + 1
    /\ UNCHANGED <<file, images, loaded, exc, ops, containers>>
    /\ UNCHANGED <<runVars, bookVars>>

\* write_images, line 93: open(path, "w").
WriteOpen ==
    /\ UNCHANGED shrinkVars
    /\ ppc = "write_open"
    /\ file' = Truncated
    /\ ppc' = "write_dump"
    /\ UNCHANGED <<images, loaded, cur_image, phase, exc, ops, containers>>
    /\ UNCHANGED <<runVars, bookVars>>

\* write_images, lines 94-99, and main's next turn of the loop.
WriteDump ==
    /\ UNCHANGED shrinkVars
    /\ ppc = "write_dump"
    /\ file' = Dumped(images)
    /\ ppc' = "loop"
    /\ phase' = "loop"
    /\ cur_image' = cur_image + 1
    /\ UNCHANGED <<images, loaded, exc, ops, containers>>
    /\ UNCHANGED <<runVars, bookVars>>

\* The user interrupts the process: between the two assignments of lines
\* 504-505, while write_images has the file open, or while wait_tcp_port
\* polls a port that never answers.
Interrupt ==
    /\ UNCHANGED shrinkVars
    /\ \/ ppc \in {"set_new", "write_dump"}
       \/ ppc = "hung" /\ phase \in {"trace", "verify"}
    /\ Raise("KeyboardInterrupt")
    /\ UNCHANGED <<file, images, loaded, cur_image, phase, ops, containers>>
    /\ UNCHANGED <<runVars, bookVars>>

\* An invocation ended while analyze_image was running.
AnalysisAborted == ppc = "aborted" /\ phase \in {"trace", "verify", "record"}

\* The next invocation of the pipeline: a new process, the same
\* images.json, the same engine data root.
Restart ==
    /\ UNCHANGED shrinkVars
    /\ ppc \in {"aborted", "exited"}
    /\ invocation < MaxInvocations
    /\ invocation' = invocation + 1
    /\ completedPrev' = IF AnalysisAborted THEN completed ELSE {}
    /\ completed' = {}
    /\ images' = <<>>
    /\ loaded' = <<>>
    /\ ppc' = "load"
    /\ cur_image' = 0
    /\ phase' = "load"
    /\ sc' = 0
    /\ sidecars_up' = <<>>
    /\ run_envs' = <<>>
    /\ stack' = <<>>
    /\ exc' = "none"
    /\ result' = NoResult
    /\ ops' = <<>>
    /\ UNCHANGED <<file, containers>>

Next ==
    \/ Load
    \/ Startup
    \/ LoopSkip
    \/ LoopEnd
    \/ AnalyzeImage
    \/ RunContainerEnter
    \/ DockerRun
    \/ DockerInspect
    \/ Substitute
    \/ TestImage
    \/ TestHang
    \/ DockerLogs
    \/ DockerCreate
    \/ DockerExport
    \/ DockerRmExport
    \/ Rewrite
    \/ DockerImport
    \/ GetBytes
    \/ Unwind
    \/ UnwindDone
    \/ SetOldSize
    \/ SetNewSize
    \/ WriteOpen
    \/ WriteDump
    \/ Interrupt
    \/ Restart

Spec == Init /\ [][Next]_vars

----------------------------------------------------------------------------
(* Claims about the pipeline, checked under Spec. *)

\* The image carries both sizes, or has skip set.
DoneOrSkipped(image) ==
    (image.old_size # NoSize /\ image.new_size # NoSize) \/ image.skip

\* The record images.json holds under a name has both sizes.
HasSizes(n) ==
    \E i \in DOMAIN file.items :
        /\ file.items[i].name = n
        /\ {"old_size", "new_size"} \subseteq DOMAIN file.items[i].value

\* C8: resumability.  For every image that read_images returned with both
\* old_size and new_size, or with skip set, the invocation issues no
\* command for the image or its sidecars, and the image main holds stays
\* equal, field by field, to what was loaded.
C8_Resumable ==
    \A i \in DOMAIN loaded :
        DoneOrSkipped(loaded[i]) =>
            /\ \A k \in DOMAIN ops : ops[k].owner # loaded[i].name
            /\ images[i] = loaded[i]

\* An invocation that found the first image done, analysed the second one
\* and ended.
C8_Witness ==
    /\ ppc = "exited"
    /\ Len(loaded) = 2
    /\ loaded[1].old_size # NoSize
    /\ loaded[1].sidecars # <<>>
    /\ completed = {loaded[2].name}

\* C9: restartability.  When an invocation ends while an image is being
\* analysed, images.json is whole and holds both sizes for every image whose
\* analysis completed earlier in the invocation; the invocation that
\* follows finds each of them processed and issues no command for them.
C9_Restartable ==
    /\ AnalysisAborted =>
          /\ file.valid
          /\ \A n \in completed : HasSizes(n)
    /\ \A k \in DOMAIN ops : ops[k].owner \notin completedPrev
    /\ \A i \in DOMAIN images :
          images[i].name \in completedPrev => IsProcessed(images[i])

\* The second invocation, after the first one completed one image and was
\* ended in the analysis of the other: it has analysed that one and ended.
C9_Witness ==
    /\ invocation = 2
    /\ ppc = "exited"
    /\ completedPrev # {}
    /\ completed # {}

\* Both sizes or none, in a record and in the records of its sidecars.
RECURSIVE Paired(_)
Paired(value) ==
    /\ "old_size" \in DOMAIN value <=> "new_size" \in DOMAIN value
    /\ \A i \in DOMAIN value.sidecars : Paired(value.sidecars[i].value)

\* C10: atomicity of the completion marker.  In every state every record of
\* images.json has old_size exactly when it has new_size; when an analysis
\* ended the invocation, the record of the image that was being analysed
\* has neither, and read back it is an image main analyses.
C10_MarkerAtomic ==
    /\ \A i \in DOMAIN file.items : Paired(file.items[i].value)
    /\ AnalysisAborted =>
          \E i \in DOMAIN file.items :
              /\ file.items[i].name = Cur.name
              /\ "old_size" \notin DOMAIN file.items[i].value
              /\ "new_size" \notin DOMAIN file.items[i].value
              /\ ~IsProcessed(FromJson(file.items[i].name, file.items[i].value))

\* The process is interrupted between lines 504 and 505, old_size assigned
\* and new_size not, after an earlier image was written with its sizes.
C10_Witness ==
    /\ AnalysisAborted
    /\ phase = "record"
    /\ Cur.old_size # NoSize
    /\ Cur.new_size = NoSize
    /\ completed # {}

\* The run against the imported image.
Verifying == phase = "verify"

\* C11: a failing verification is fatal and surfaced.  While the run against
\* the reduced image is up, the pipeline is never left polling a port that
\* does not answer; when the verification ends the invocation, an exception
\* has ended it and the image has neither size.
C11_VerificationFailureFatal ==
    /\ Verifying => ppc # "hung"
    /\ (Verifying /\ ppc = "aborted") =>
          /\ exc # "none"
          /\ Cur.old_size = NoSize
          /\ Cur.new_size = NoSize

\* The verification run of an image with a test port: the container of the
\* reduced image is up, its port never answers, wait_tcp_port polls on.
C11_Witness ==
    /\ Verifying
    /\ ppc = "hung"
    /\ Cur.test_ports # <<>>
    /\ \E k \in DOMAIN ops :
          ops[k].op = "run" /\ ops[k].ref = ImportedId[Cur.name]

\* The command with this index is issued for container c.
IsFor(k, c) == ops[k].owner = c.owner /\ ops[k].role = c.role

\* Every docker run of container c in this invocation has a docker rm of c
\* issued after it.
RemovalIssued(c) ==
    \A k \in DOMAIN ops :
        (ops[k].op = "run" /\ IsFor(k, c)) =>
            \E j \in DOMAIN ops : j > k /\ ops[j].op = "rm" /\ IsFor(j, c)

\* No scope of run_container or run_container_instrumented is open.
ScopesLeft ==
    /\ stack = <<>>
    /\ ppc \in {"aborted", "exited", "loop", "set_old", "set_new",
                "write_open", "write_dump"}

\* C12: scoped container removal.  Once the scopes of a run are left, on
\* whatever path, every container a docker run of run_container created has
\* had its removal issued.
C12_ScopedRemoval ==
    ScopesLeft =>
        \A c \in containers :
            (c.role # "export" /\ \E k \in DOMAIN ops : ops[k].op = "run" /\ IsFor(k, c))
                => RemovalIssued(c)

\* The verification run of an image with a sidecar: docker run of the
\* parent fails after the engine created the container; the sidecar is
\* removed as the ExitStack is left, the parent is not.
C12_Witness ==
    /\ ppc = "aborted"
    /\ Verifying
    /\ exc = "CalledProcessError"
    /\ Cur.sidecars # <<>>
    /\ Container(Cur.name, "parent") \in containers
    /\ ~RemovalIssued(Container(Cur.name, "parent"))
    /\ \A i \in DOMAIN Cur.sidecars :
          /\ Container(Cur.name, Cur.sidecars[i].name) \notin containers
          /\ RemovalIssued(Container(Cur.name, Cur.sidecars[i].name))

\* The image a command instantiates: the image of main's loop, or one of
\* its sidecars.
RefImage(k) ==
    IF ops[k].role \in {"parent", "export"} THEN ops[k].owner ELSE ops[k].role

\* C13: no container is created or run for an image without repo_digest, and
\* the reference of every docker run and docker create is the digest of the
\* image or, for the parent, the id docker import returned; never the name
\* of the image.
C13_PinnedReference ==
    \A k \in DOMAIN ops :
        ops[k].op \in {"run", "create"} =>
            /\ ops[k].ref # None
            /\ ops[k].ref # RefImage(k)
            /\ \/ ops[k].ref = DigestOf[RefImage(k)]
               \/ /\ ops[k].op = "run"
                  /\ ops[k].role = "parent"
                  /\ ops[k].ref = ImportedId[ops[k].owner]

\* An image whose second sidecar has no repo_digest: the first sidecar was
\* run by its digest, then the assertion of run_container ended the
\* invocation with no docker run for the second one.
C13_Witness ==
    /\ ppc = "aborted"
    /\ exc = "AssertionError"
    /\ sc = 2
    /\ Target.repo_digest = None
    /\ \E k \in DOMAIN ops :
          /\ ops[k].op = "run"
          /\ ops[k].role = Cur.sidecars[1].name
          /\ ops[k].ref = Cur.sidecars[1].repo_digest
    /\ \A k \in DOMAIN ops : ops[k].op = "run" => ops[k].role # Role

----------------------------------------------------------------------------
(* Further claims about shrink_image, checked under SpecShrink. *)

\* C14: resolution anomalies never abort minimization.  Whatever the
\* archive and the trace log hold (a dangling link, an interpreter that
\* resolves outside the shadow tree, a "#!" line naming no interpreter),
\* shrink_image does not raise: it goes on to write the reduced archive.
C14_AnomaliesNeverAbort == spc # "raised"

\* The scan has reached a regular file whose first line is "#!" and
\* nothing else, and line 416 has raised IndexError: no reduced archive.
C14_Witness ==
    /\ spc = "raised"
    /\ pos \in DOMAIN source
    /\ SplitFails(source[pos])
    /\ destination = <<>>

----------------------------------------------------------------------------
(* Further claims about the pipeline, checked under Spec. *)

\* The image of main's list with this name.
ImageNamed(n) == images[CHOOSE i \in DOMAIN images : images[i].name = n]

\* The placeholders of the sidecars of an image.
Placeholders(image) == { Var(image.sidecars[i].name) : i \in DOMAIN image.sidecars }

\* The tokens of a list of environment strings.
Tokens(envs) == UNION { { envs[i][j] : j \in DOMAIN envs[i] } : i \in DOMAIN envs }

\* C15: placeholder substitution is complete.  The environment of every
\* docker run of a parent, issued when all sidecars of the image are up,
\* holds no "${name}" of any of these sidecars.
C15_SubstitutionComplete ==
    \A k \in DOMAIN ops :
        (ops[k].op = "run" /\ ops[k].role = "parent") =>
            Tokens(ops[k].envs) \cap Placeholders(ImageNamed(ops[k].owner)) = {}

\* An image with the sidecars mq and db, in this order, and the
\* environment string "${db}:${mq}": the parent is run with the address of
\* db and the placeholder of mq.
C15_Witness ==
    \E k \in DOMAIN ops :
        /\ ops[k].op = "run"
        /\ ops[k].role = "parent"
        /\ Len(sidecars_up) = 2
        /\ sidecars_up[1].name = "mq"
        /\ sidecars_up[2].name = "db"
        /\ ops[k].envs = <<<<Addr("db"), Lit(":"), Var("mq")>>>>

\* The command with this index is this one, for this container of owner.
IsOp(k, op, owner, role) ==
    ops[k].op = op /\ ops[k].owner = owner /\ ops[k].role = role

\* The index of the docker run of the parent of the same image before k,
\* 0 when k is the first one: the traced run ends there.
RunBefore(k) ==
    LET earlier == { j \in 1..(k - 1) : IsOp(j, "run", ops[k].owner, "parent") }
    IN  IF earlier = {} THEN 0 ELSE CHOOSE j \in earlier : \A i \in earlier : i <= j

\* Before the docker run with index k and after the run before it: every
\* sidecar run, then inspected; then the substitution; then, with a
\* sidecar, the settle delay.
SidecarsReady(k) ==
    LET owner == ops[k].owner
        scs == ImageNamed(owner).sidecars
        from == RunBefore(k)
    IN  \E m \in (from + 1)..(k - 1) :
            /\ IsOp(m, "subst", owner, "parent")
            /\ \A s \in DOMAIN scs :
                  \E i \in (from + 1)..(m - 1), j \in (from + 1)..(m - 1) :
                      /\ i < j
                      /\ IsOp(i, "run", owner, scs[s].name)
                      /\ IsOp(j, "inspect", owner, scs[s].name)
            /\ scs # <<>> =>
                  \E n \in (m + 1)..(k - 1) : IsOp(n, "sleep", owner, "parent")

\* C16: sidecar ordering.  In the traced and in the verification run the
\* docker run of the parent is issued only after every sidecar of the image
\* was run and inspected, the substitution was applied, and, with at least
\* one sidecar, the settle delay has passed.
C16_SidecarsBeforeParent ==
    \A k \in DOMAIN ops :
        (ops[k].op = "run" /\ ops[k].role = "parent") => SidecarsReady(k)

\* The verification run of an image with two sidecars has issued the
\* docker run of the parent.
C16_Witness ==
    \E k \in DOMAIN ops :
        /\ ops[k].op = "run"
        /\ ops[k].role = "parent"
        /\ ops[k].ref = ImportedId[ops[k].owner]
        /\ RunBefore(k) # 0
        /\ Len(ImageNamed(ops[k].owner).sidecars) = 2

\* The step issues one command, a docker rm.
RemovalStep ==
    /\ Len(ops') = Len(ops) + 1
    /\ ops'[Len(ops')].op = "rm"

\* C17: container removal is best-effort everywhere.  A step that issues
\* the removal of a container (parent, sidecar or the throwaway container of
\* the export) leaves the propagating exception as it was: it raises none
\* when there was none and does not replace the one there was.
C17_RemovalBestEffort == [][RemovalStep => exc' = exc]_vars

\* docker rm of the throwaway container has just failed: the container is
\* still there and CalledProcessError leaves shrink_image.
C17_Witness ==
    /\ ppc = "unwind"
    /\ exc = "CalledProcessError"
    /\ ops # <<>>
    /\ IsOp(Len(ops), "rm", Cur.name, "export")
    /\ Container(Cur.name, "export") \in containers

----------------------------------------------------------------------------
(* A further claim about shrink_image, checked under SpecShrink. *)

\* Entries s, i, j of the archive: s is a seed script, its interpreter i is
\* a script outside the seed, whose interpreter j is a regular file outside
\* the seed; the archive has no link, so nothing is reached by resolution.
InterpreterChain(s, i, j) ==
    /\ \A k \in DOMAIN source : source[k].kind # "sym"
    /\ source[s].name \in Seed(logs)
    /\ DeclaresInterp(source[s])
    /\ Interp(source[s]) = source[i].name
    /\ source[i].name \notin Seed(logs)
    /\ DeclaresInterp(source[i])
    /\ Interp(source[i]) = source[j].name
    /\ source[j].kind = "reg"
    /\ source[j].name \notin Seed(logs)
    /\ s # i /\ i # j /\ s # j

\* C18: one-hop interpreter limit.  In whatever order the archive holds its
\* entries, the interpreter of the interpreter of a seed script, itself
\* neither in the seed nor reached by resolution, is not in the resolved set.
C18_OneHopLimit ==
    Resolved =>
        \A s \in DOMAIN source, i \in DOMAIN source, j \in DOMAIN source :
            InterpreterChain(s, i, j) => source[j].name \notin path_set

\* The archive holds the seed script before its interpreter: the scan put
\* the interpreter in the set, met it as a member of the set, and added the
\* interpreter's interpreter.
C18_Witness ==
    /\ Resolved
    /\ \E s \in DOMAIN source, i \in DOMAIN source, j \in DOMAIN source :
          /\ InterpreterChain(s, i, j)
          /\ s < i
          /\ source[j].name \in path_set

\* A size of the image with this index was assigned in this invocation.
SizeSetNow(i) ==
    \/ images[i].old_size # loaded[i].old_size
    \/ images[i].new_size # loaded[i].new_size

\* The steps of the analysis of image n, in the order of the claim: the
\* traced run and its test, the sleep and the log dump, the export, the
\* rewrite and the import, the verification run, its test and log dump.
StepsOf(n) ==
    << [op |-> "run", role |-> "parent", ref |-> DigestOf[n]],
       [op |-> "test", role |-> "parent", ref |-> ""],
       [op |-> "settle", role |-> "parent", ref |-> ""],
       [op |-> "logs", role |-> "parent", ref |-> ""],
       [op |-> "export", role |-> "export", ref |-> ""],
       [op |-> "rewrite", role |-> "reduced", ref |-> ""],
       [op |-> "import", role |-> "reduced", ref |-> ""],
       [op |-> "run", role |-> "parent", ref |-> ImportedId[n]],
       [op |-> "test", role |-> "parent", ref |-> ""],
       [op |-> "logs", role |-> "parent", ref |-> ""] >>

IsStep(k, n, step) ==
    IsOp(k, step.op, n, step.role) /\ ops[k].ref = step.ref

\* The steps from the p-th on are in the log after index k, in order.
RECURSIVE StepsFollow(_, _, _, _)
StepsFollow(n, steps, p, k) ==
    IF p > Len(steps) THEN TRUE
    ELSE LET found == { j \in (k + 1)..Len(ops) : IsStep(j, n, steps[p]) }
         IN  /\ found # {}
             /\ StepsFollow(n, steps, p + 1, CHOOSE j \in found : \A i \in found : j <= i)

\* Each step was taken once.
StepsOnce(n, steps) ==
    \A p \in DOMAIN steps :
        Cardinality({ k \in DOMAIN ops : IsStep(k, n, steps[p]) })
            = Cardinality({ q \in DOMAIN steps : steps[q] = steps[p] })

\* The commands issued for image n are next to each other in the log.
Contiguous(n) ==
    LET mine == { k \in DOMAIN ops : ops[k].owner = n }
    IN  \A k \in DOMAIN ops :
            (\E a \in mine : a <= k) /\ (\E b \in mine : k <= b) => k \in mine

\* C19: per-image step order.  When a size of an image is assigned, the
\* steps of its analysis have all been taken, once each and in order, and
\* no command for another image lies between them.
C19_StepOrder ==
    \A i \in DOMAIN images :
        SizeSetNow(i) =>
            /\ StepsFollow(images[i].name, StepsOf(images[i].name), 1, 0)
            /\ StepsOnce(images[i].name, StepsOf(images[i].name))
            /\ Contiguous(images[i].name)

\* Two images were analysed one after the other in one invocation, the
\* second one with sidecars and a test port, and both have their sizes.
C19_Witness ==
    /\ ppc = "exited"
    /\ Len(images) = 2
    /\ SizeSetNow(1)
    /\ SizeSetNow(2)
    /\ images[2].sidecars # <<>>
    /\ images[2].test_ports # <<>>

\* The command with index k exports a container that docker create made
\* from the original digest of the image in the command just before, and
\* that no docker run names.
ExportsThrowaway(k) ==
    /\ ops[k].role = "export"
    /\ k > 1
    /\ IsOp(k - 1, "create", ops[k].owner, "export")
    /\ ops[k - 1].ref = ImageNamed(ops[k].owner).repo_digest
    /\ ops[k - 1].ref = DigestOf[ops[k].owner]
    /\ \A j \in DOMAIN ops : ops[j].op = "run" => ops[j].role # "export"

\* The docker run with index k is that of a parent, after the import of
\* the reduced archive of its image and the traced run of that image.
IsVerificationRun(k) ==
    /\ ops[k].role = "parent"
    /\ ops[k].config = "traced"
    /\ \E j \in 1..(k - 1) : IsOp(j, "import", ops[k].owner, "reduced")
    /\ RunBefore(k) # 0

\* C20: the archive that is rewritten is always the export of a container
\* created from the original digest for that purpose and never started; no
\* container of a run is exported; a docker run is given the id of the
\* imported image exactly when it is the verification run.
C20_ExportFromThrowaway ==
    /\ \A k \in DOMAIN ops : ops[k].op = "export" => ExportsThrowaway(k)
    /\ \A k \in DOMAIN ops :
          ops[k].op = "rewrite" =>
              \E j \in 1..(k - 1) : IsOp(j, "export", ops[k].owner, "export")
    /\ \A k \in DOMAIN ops :
          ops[k].op = "run" =>
              (ops[k].ref = ImportedId[ops[k].owner] <=> IsVerificationRun(k))

\* The verification run of an image with a sidecar is up: the archive was
\* exported from the throwaway container, the parent runs from the
\* imported id.
C20_Witness ==
    /\ Verifying
    /\ ppc = "test"
    /\ Cur.sidecars # <<>>
    /\ \E k \in DOMAIN ops : IsOp(k, "export", Cur.name, "export")
    /\ \E k \in DOMAIN ops : ops[k].op = "run" /\ IsVerificationRun(k)

----------------------------------------------------------------------------
(* The caller's Image across run_container_instrumented *)

\* Two Images that differ at most in the sizes analyze_image assigns.
SameButSizes(a, b) ==
    [a EXCEPT !.old_size = NoSize, !.new_size = NoSize]
        = [b EXCEPT !.old_size = NoSize, !.new_size = NoSize]

\* The environment docker run is given for the image at index i when the
\* substitution starts from the environment read from images.json.
FromOriginal(i) == SubstituteEnvs(loaded[i].envs, loaded[i].sidecars)

\* C21: the substitution leaves the Image of the caller as it was.  Every
\* field of every Image but the two sizes is at all times what read_images
\* returned; every docker run of a parent, the verification run included,
\* is given the environment substituted from the original strings; and the
\* file, whenever it is whole, holds the original strings of every Image.
C21_CallerImageUnchanged ==
    /\ DOMAIN images = DOMAIN loaded
    /\ \A i \in DOMAIN images : SameButSizes(images[i], loaded[i])
    /\ \A k \in DOMAIN ops :
          (ops[k].op = "run" /\ ops[k].role = "parent") =>
              \A i \in DOMAIN loaded :
                  loaded[i].name = ops[k].owner => ops[k].envs = FromOriginal(i)
    /\ (file.valid /\ loaded # <<>>) =>
          \A j \in DOMAIN file.items : \A i \in DOMAIN loaded :
              loaded[i].name = file.items[j].name =>
                  /\ Get(file.items[j].value, "envs", <<>>) = loaded[i].envs
                  /\ Get(file.items[j].value, "mounts", <<>>) = loaded[i].mounts

\* An image with a sidecar and its placeholder has been through both runs,
\* the verification run was given the address in place of the placeholder,
\* and the file written afterwards holds the placeholder and the new size.
C21_Witness ==
    /\ ppc = "loop"
    /\ file.valid
    /\ \E i \in DOMAIN images :
          /\ images[i].name \in completed
          /\ Tokens(images[i].envs) \cap Placeholders(images[i]) # {}
          /\ \E k \in DOMAIN ops :
                /\ ops[k].op = "run"
                /\ ops[k].owner = images[i].name
                /\ IsVerificationRun(k)
                /\ ops[k].envs # images[i].envs
          /\ \E j \in DOMAIN file.items :
                /\ file.items[j].name = images[i].name
                /\ "new_size" \in DOMAIN file.items[j].value
                /\ Tokens(file.items[j].value.envs) \cap Placeholders(images[i]) # {}

----------------------------------------------------------------------------
(* The death of dockerd during run_dockerd's startup wait *)

\* dockerd ended before its socket answered: line 195 has raised.
DaemonDied == phase = "startup" /\ exc = "SystemExit"

\* C22: the death of the daemon during startup is fatal and terminating.
\* Once dockerd has ended before its socket answered, no command has been
\* issued for any Image, no Image has been changed, and the process has
\* ended: it is not left waiting for containerd.
C22_DaemonDeathTerminates ==
    DaemonDied =>
        /\ ops = <<>>
        /\ images = loaded
        /\ completed = {}
        /\ ppc = "aborted"

\* dockerd has ended while containerd runs, with an Image left to analyze:
\* the exit of the with statement of line 184 waits for containerd.
C22_Witness ==
    /\ DaemonDied
    /\ ppc = "hung"
    /\ ops = <<>>
    /\ \E i \in DOMAIN images : ~IsProcessed(images[i])

====
